---- MODULE Spec2Model ----
(***************************************************************************)
(* Model of up/models/backbones/resnet.py: the ResNet backbone, its stage  *)
(* builder, freezing, train(), forward dispatch and the factory functions. *)
(*                                                                         *)
(* Tensors are abstracted to their provenance: the value that flows        *)
(* through forward is the sequence of layer indices applied to the input   *)
(* image so far.  A layer is abstracted to its block list, its output      *)
(* channel count, its training flag and whether any of its parameters      *)
(* still has requires_grad = True.  Python lists are 1-based sequences     *)
(* here; At(l, i) is the Python l[i].                                      *)
(***************************************************************************)
EXTENDS Integers, Sequences, FiniteSets, TLC

VARIABLES
    pc,                       \* position of the current call
    call,                     \* factory called, block class and layers it passes, kwargs
    self,                     \* attributes of the ResNet instance
    layer,                    \* layer0..layer4 of the instance
    exc,                      \* exception raised by the last operation ("none" if none)
    ret,                      \* what the last forward() returned
    op,                       \* the last operation called
    RepBasicBlock_block_type, \* class attribute RepBasicBlock.block_type
    stage,                    \* what the last make_layer4() call was given and returned
    models,                   \* the models the caller keeps, in the order they were returned
    cur                       \* which kept model the caller holds (0: none, or one not kept yet)

vars == <<pc, call, self, layer, exc, ret, op, RepBasicBlock_block_type, stage, models, cur>>

-----------------------------------------------------------------------------
(* Bounds of the model *)

\* longest frozen_layers list tried exhaustively
MaxFrozen == 2
\* longest out_layers / out_strides list tried exhaustively
MaxOut == 2
\* largest layer index tried (the valid ones are 0..4)
MaxIdx == 5
\* largest per-stage block count given to resnet_custom
MaxBlocks == 2
\* largest segment count in a checkpoint list
MaxSeg == 1

-----------------------------------------------------------------------------
(* Python helpers *)

BSeq(S, n) == UNION {[1..k -> S] : k \in 0..n}

Range(s) == {s[k] : k \in DOMAIN s}

At(l, i) == l[i + 1]

PyMin(x) == CHOOSE m \in Range(x) : \A e \in Range(x) : m <= e

PyMax(x) == CHOOSE m \in Range(x) : \A e \in Range(x) : m >= e

RECURSIVE PySum(_)
PySum(s) == IF s = <<>> THEN 0 ELSE Head(s) + PySum(Tail(s))

\* s[0:n]
Prefix(s, n) == SubSeq(s, 1, n)

\* int(w * multiplier) for a non-negative width and the multiplier num/den
IntMul(w, m) == (w * m[1]) \div m[2]

-----------------------------------------------------------------------------
(* Python floats: IEEE double precision, round to nearest, ties to even.  A   *)
(* positive float is [m, e]: m its significand as Precision bits, most        *)
(* significant first, e the exponent of its last bit; the value is m * 2^e.   *)
(* Zero has the empty significand.  Only non-negative values occur here.      *)

\* significant bits of a double
Precision == 53

FZero == [m |-> <<>>, e |-> 0]

Zeros(n) == [i \in 1..n |-> 0]

\* the binary digits of a natural number, most significant first
RECURSIVE NatBits(_)
NatBits(n) == IF n = 0 THEN <<>> ELSE Append(NatBits(n \div 2), n % 2)

StripZeros(b) ==
    IF \A i \in DOMAIN b : b[i] = 0 THEN <<>>
    ELSE LET f == CHOOSE i \in DOMAIN b : b[i] = 1 /\ \A k \in 1..(i - 1) : b[k] = 0
         IN  SubSeq(b, f, Len(b))

\* Long numbers are multiplied and divided ten binary digits at a time.
Pow2 == <<1, 2, 4, 8, 16, 32, 64, 128, 256, 512, 1024>>

\* b as groups of ten digits, most significant first
ToLimbs(b) ==
    LET n == (Len(b) + 9) \div 10
        p == Zeros(10 * n - Len(b)) \o b
    IN  [i \in 1..n |->
            512 * p[10 * i - 9] + 256 * p[10 * i - 8] + 128 * p[10 * i - 7]
            + 64 * p[10 * i - 6] + 32 * p[10 * i - 5] + 16 * p[10 * i - 4]
            + 8 * p[10 * i - 3] + 4 * p[10 * i - 2] + 2 * p[10 * i - 1] + p[10 * i]]

FromLimbs(l) ==
    [j \in 1..(10 * Len(l)) |->
        (l[((j - 1) \div 10) + 1] \div Pow2[10 - ((j - 1) % 10)]) % 2]

\* the groups of l * k + carry, for a small natural k
RECURSIVE MulLimbs(_, _, _)
MulLimbs(l, k, carry) ==
    IF l = <<>> THEN (IF carry = 0 THEN <<>> ELSE ToLimbs(NatBits(carry)))
    ELSE Append(MulLimbs(SubSeq(l, 1, Len(l) - 1), k, (l[Len(l)] * k + carry) \div 1024),
                (l[Len(l)] * k + carry) % 1024)

\* the digits of b * k, for a small natural k
MulBits(b, k) == FromLimbs(MulLimbs(ToLimbs(b), k, 0))

\* long division of the groups of l from the j-th on by a small natural n,
\* with q the quotient so far and r the remainder so far
RECURSIVE DivLimbs(_, _, _, _, _)
DivLimbs(l, j, n, q, r) ==
    IF j > Len(l) THEN [q |-> q, r |-> r]
    ELSE DivLimbs(l, j + 1, n, Append(q, (1024 * r + l[j]) \div n), (1024 * r + l[j]) % n)

\* quotient digits q and remainder r of b by a small natural n
DivBits(b, n) ==
    LET d == DivLimbs(ToLimbs(b), 1, n, <<>>, 0)
    IN  [q |-> FromLimbs(d.q), r |-> d.r]

\* b + 1 on Precision digits; all ones carry into the next binade
IncBits(b) ==
    IF \A i \in DOMAIN b : b[i] = 1
    THEN [m |-> <<1>> \o Zeros(Len(b) - 1), carry |-> 1]
    ELSE LET j == CHOOSE i \in DOMAIN b : b[i] = 0 /\ \A k \in (i + 1)..Len(b) : b[k] = 1
         IN  [m |-> [i \in DOMAIN b |-> IF i < j THEN b[i] ELSE IF i = j THEN 1 ELSE 0],
              carry |-> 0]

\* the float nearest to q * 2^e (plus a non-zero tail below the last digit
\* of q when sticky), q without leading zeros
RoundBits(q, sticky, e) ==
    IF q = <<>> THEN FZero
    ELSE IF Len(q) <= Precision
    THEN [m |-> q \o Zeros(Precision - Len(q)), e |-> e - (Precision - Len(q))]
    ELSE LET top   == SubSeq(q, 1, Precision)
             guard == q[Precision + 1]
             tail  == sticky \/ \E j \in (Precision + 2)..Len(q) : q[j] = 1
             up    == guard = 1 /\ (tail \/ top[Precision] = 1)
             inc   == IncBits(top)
         IN  IF up THEN [m |-> inc.m, e |-> e + (Len(q) - Precision) + inc.carry]
                   ELSE [m |-> top, e |-> e + (Len(q) - Precision)]

\* float(x) * k for an int k
FMulInt(x, k) ==
    IF x.m = <<>> \/ k = 0 THEN FZero
    ELSE RoundBits(StripZeros(MulBits(x.m, k)), FALSE, x.e)

\* x / float(n) for an int n > 0
FDivInt(x, n) ==
    IF x.m = <<>> THEN FZero
    ELSE LET d == DivBits(x.m \o Zeros(64), n)
         IN  RoundBits(StripZeros(d.q), d.r # 0, x.e - 64)

\* the float a literal num/den denotes (0.1 is <<1, 10>>)
FLiteral(r) ==
    IF r[1] = 0 THEN FZero
    ELSE LET b == NatBits(r[1]) \o Zeros(64)
             d == DivBits(b, r[2])
         IN  RoundBits(StripZeros(d.q), d.r # 0, 0 - 64)

\* x <= y on non-negative floats
FLeq(x, y) ==
    \/ x.m = <<>>
    \/ /\ y.m # <<>>
       /\ \/ x.e < y.e
          \/ /\ x.e = y.e
             /\ \/ x.m = y.m
                \/ \E i \in 1..Precision :
                      /\ x.m[i] < y.m[i]
                      /\ \A j \in 1..(i - 1) : x.m[j] = y.m[j]

-----------------------------------------------------------------------------
(* Block classes *)

BlockClasses == {"BasicBlock", "RepBasicBlock", "DeformBasicBlock", "Bottleneck", "DeformBlock"}

expansion(b) == IF b \in {"Bottleneck", "DeformBlock"} THEN 4 ELSE 1

\* number of convolutions on the main path of one block
main_convs(b) == IF b \in {"Bottleneck", "DeformBlock"} THEN 3 ELSE 2

is_deform(b) == b \in {"DeformBasicBlock", "DeformBlock"}

-----------------------------------------------------------------------------
(* Keyword arguments the factories are called with *)

\* width=[64, 64, 128, 256, 512]
DefaultWidth == <<64, 64, 128, 256, 512>>

\* layer_deform=[0, 0, 0, 0, 0]
DefaultDeform == <<"False", "False", "False", "False", "False">>

\* checkpoint=False: a scalar whose int() is 0.  A scalar checkpoint is kept
\* as its int() value, a list checkpoint as the list.
NoCheckpoint == [iterable |-> FALSE, v |-> <<0>>]

DefaultKw ==
    [out_layers |-> <<2, 3, 4>>, out_strides |-> <<8, 16, 32>>,
     frozen_layers |-> <<>>, layer_deform |-> DefaultDeform,
     multiplier |-> <<1, 1>>, checkpoint |-> NoCheckpoint,
     drop_path_rate |-> <<0, 1>>, width |-> DefaultWidth,
     style |-> "pytorch", block_type |-> "res", given |-> {}, block |-> "",
     layers |-> <<>>]

IdxDomain == (0 - 1) .. MaxIdx

StrideSet == {8, 16, 32}

\* (out_layers, out_strides) pairs used where out_layers is not the subject
OutCfgs ==
    { <<<<2, 3, 4>>, <<8, 16, 32>>>>, <<<<3>>, <<16>>>>, <<<<4>>, <<16>>>>,
      <<<<4, 2>>, <<32, 8>>>>, <<<<0, 1, 2, 3>>, <<4, 4, 8, 16>>>>, <<<<>>, <<>>>> }

FrozenCfgs == { <<>>, <<0>>, <<0, 1>>, <<4>>, <<2, 0>>, <<0, 1, 2, 3, 4>> }

CheckpointCfgs ==
    { [iterable |-> FALSE, v |-> <<n>>] : n \in 0 .. MaxSeg }
    \cup { [iterable |-> TRUE, v |-> s] : s \in [1..5 -> {0, MaxSeg}] }

\* frozen_layers varied exhaustively
KwFrozen ==
    { [DefaultKw EXCEPT !.frozen_layers = f, !.out_layers = o[1], !.out_strides = o[2]] :
        f \in BSeq(IdxDomain, MaxFrozen), o \in OutCfgs }

\* out_layers varied exhaustively, against every out_strides over two strides
KwOut ==
    { [DefaultKw EXCEPT !.out_layers = o, !.out_strides = s, !.frozen_layers = f] :
        o \in BSeq(IdxDomain, MaxOut), s \in BSeq({16, 32}, MaxOut),
        f \in {<<>>, <<0, 1>>} }

\* out_strides varied exhaustively
KwStrides ==
    { [DefaultKw EXCEPT !.out_layers = o, !.out_strides = s] :
        o \in {<<4>>, <<3, 4>>, <<4, 2>>, <<3>>}, s \in BSeq(StrideSet, MaxOut) }

\* checkpoint varied exhaustively
KwCheckpoint ==
    { [DefaultKw EXCEPT !.checkpoint = c, !.frozen_layers = f,
                        !.out_layers = o[1], !.out_strides = o[2]] :
        c \in CheckpointCfgs, f \in FrozenCfgs,
        o \in { <<<<2, 3, 4>>, <<8, 16, 32>>>>, <<<<3>>, <<16>>>>, <<<<4, 2>>, <<8, 16>>>> } }

Multipliers == { <<1, 1>>, <<1, 2>>, <<1, 4>>, <<3, 4>>, <<2, 1>> }

Widths == { DefaultWidth, <<10, 10, 20, 40, 80>>, <<32, 16, 24, 40, 100>> }

\* width and multiplier varied
KwPlanes ==
    { [DefaultKw EXCEPT !.multiplier = m, !.width = w, !.out_layers = o[1], !.out_strides = o[2]] :
        m \in Multipliers, w \in Widths, o \in OutCfgs }

DeformSettings == {"False", "last", "all", "1", "2"}

\* layer_deform varied in the last three stages
KwDeform ==
    { [DefaultKw EXCEPT !.layer_deform = <<"False", "False", a, b, c>>,
                        !.out_layers = o[1], !.out_strides = o[2]] :
        a \in {"False", "last"}, b \in DeformSettings, c \in {"False", "all"},
        o \in { <<<<2, 3, 4>>, <<8, 16, 32>>>>, <<<<3>>, <<16>>>> } }

\* style and drop_path_rate varied
DropRates == { <<0, 1>>, <<1, 10>>, <<1, 5>>, <<1, 2>> }

KwStyle ==
    { [DefaultKw EXCEPT !.style = st, !.drop_path_rate = d, !.out_layers = o[1], !.out_strides = o[2]] :
        st \in {"pytorch", "caffe"}, d \in DropRates,
        o \in { <<<<2, 3, 4>>, <<8, 16, 32>>>>, <<<<3>>, <<16>>>> } }

\* the presets are called with these
KwPreset ==
    { [DefaultKw EXCEPT !.out_layers = o[1], !.out_strides = o[2]] : o \in OutCfgs }

KwLifecycle == KwFrozen \cup KwOut \cup KwStrides \cup KwCheckpoint

KwStructure == KwPlanes \cup KwDeform \cup KwStyle

\* keyword arguments of resnet_custom: 'block' and 'layers' may be missing
CustomBlocks == {"basic", "bottleneck", "deform"}

CustomLayers == [1..4 -> 0 .. MaxBlocks]

KwCustom ==
    { [DefaultKw EXCEPT !.given = {"block", "layers"}, !.block = b, !.layers = l,
                        !.out_layers = o[1], !.out_strides = o[2]] :
        b \in CustomBlocks, l \in CustomLayers,
        o \in { <<<<2, 3, 4>>, <<8, 16, 32>>>>, <<<<3>>, <<16>>>> } }
    \cup
    { [DefaultKw EXCEPT !.given = g, !.block = b, !.layers = <<1, 1, 1, 1>>] :
        g \in SUBSET {"block", "layers"}, b \in CustomBlocks }

\* resnet_custom with a drop_path_rate
KwCustomDrop ==
    { [DefaultKw EXCEPT !.given = {"block", "layers"}, !.block = b, !.layers = l,
                        !.drop_path_rate = d,
                        !.out_layers = o[1], !.out_strides = o[2]] :
        b \in {"basic", "bottleneck"},
        l \in {<<1, 1, 1, 1>>, <<2, 1, 1, 2>>, <<1, 2, 2, 1>>, <<1, 1, 1, 0>>},
        d \in DropRates,
        o \in { <<<<2, 3, 4>>, <<8, 16, 32>>>>, <<<<3>>, <<16>>>> } }

\* resnet18 calls of a caller that builds several models
KwRep == { [DefaultKw EXCEPT !.block_type = t] : t \in {"res", "reppre", "repnpre", "repnpost"} }

\* input channel counts and planes given to make_layer4
StageInplanes == {64, 128, 256}

StagePlanes == {64, 128}

\* keyword arguments of resnet18: block_type selects the re-parameterized block
BlockTypes == {"res", "reppre", "repnpre", "repnpost"}

Kw18 == KwLifecycle \cup { [DefaultKw EXCEPT !.block_type = t] : t \in BlockTypes }

-----------------------------------------------------------------------------
(* State after import of the module: no model built yet *)

NoLayer ==
    [built |-> FALSE, blocks |-> <<>>, channels |-> 0,
     training |-> FALSE, requires_grad |-> FALSE]

NoSelf ==
    [multiplier |-> <<1, 1>>, frozen_layers |-> <<>>, out_layers |-> <<>>,
     out_strides |-> <<>>, out_planes |-> <<>>, segments |-> <<>>,
     inplanes |-> 0, block_nums |-> 0, drop_path_rate |-> <<0, 1>>,
     training |-> FALSE]

NoRet ==
    [status |-> "none", features |-> <<>>, strides |-> <<>>, outs |-> <<>>,
     path |-> [i \in 0..4 |-> "none"], block_type |-> [i \in 0..4 |-> <<>>]]

\* no make_layer4() call yet
NoStage ==
    [called |-> FALSE, inplanes |-> 0, block |-> "none", planes |-> 0, blocks |-> 0,
     stride |-> 0, dilation |-> 0, layers |-> <<>>]

Init ==
    /\ pc = "idle"
    /\ call = [factory |-> "none", block |-> "none", layers |-> <<>>, kw |-> DefaultKw]
    /\ self = NoSelf
    /\ layer = [i \in 0..4 |-> NoLayer]
    /\ exc = "none"
    /\ ret = NoRet
    /\ op = "none"
    /\ RepBasicBlock_block_type = "None"
    /\ stage = NoStage
    /\ models = <<>>
    /\ cur = 0

-----------------------------------------------------------------------------
(* Factory functions *)

\* resnet101 given the layers of resnet50
preset_layers_101_as_50(name) ==
    CASE name = "resnet18"  -> <<2, 2, 2, 2>>
      [] name = "resnet34"  -> <<3, 4, 6, 3>>
      [] name = "resnet50"  -> <<3, 4, 6, 3>>
      [] name = "resnet101" -> <<3, 4, 6, 3>>
      [] name = "resnet152" -> <<3, 8, 36, 3>>

\* the layers list of each depth preset
preset_layers(name) ==
    CASE name = "resnet18"  -> <<2, 2, 2, 2>>
      [] name = "resnet34"  -> <<3, 4, 6, 3>>
      [] name = "resnet50"  -> <<3, 4, 6, 3>>
      [] name = "resnet101" -> <<3, 4, 23, 3>>
      [] name = "resnet152" -> <<3, 8, 36, 3>>

\* the block class of each depth preset (resnet18: unless block_type asks for
\* the re-parameterized block)
preset_block(name) ==
    IF name \in {"resnet18", "resnet34"} THEN "BasicBlock" ELSE "Bottleneck"

\* a factory enters ResNet.__init__ with the block class and layers it chose
EnterInit(name, b, l, kw) ==
    /\ call' = [factory |-> name, block |-> b, layers |-> l, kw |-> kw]
    /\ pc' = "init"
    /\ op' = name
    /\ UNCHANGED <<self, layer, exc, ret, stage, models, cur>>

resnet18(kw) ==
    /\ pc = "idle"
    /\ IF kw.block_type \in {"reppre", "repnpre", "repnpost"}
       THEN /\ RepBasicBlock_block_type' = kw.block_type
            /\ EnterInit("resnet18", "RepBasicBlock", preset_layers("resnet18"), kw)
       ELSE /\ UNCHANGED RepBasicBlock_block_type
            /\ EnterInit("resnet18", preset_block("resnet18"), preset_layers("resnet18"), kw)

resnet34(kw) ==
    /\ pc = "idle"
    /\ EnterInit("resnet34", preset_block("resnet34"), preset_layers("resnet34"), kw)
    /\ UNCHANGED RepBasicBlock_block_type

resnet50(kw) ==
    /\ pc = "idle"
    /\ EnterInit("resnet50", preset_block("resnet50"), preset_layers("resnet50"), kw)
    /\ UNCHANGED RepBasicBlock_block_type

resnet101(kw) ==
    /\ pc = "idle"
    /\ EnterInit("resnet101", preset_block("resnet101"), preset_layers("resnet101"), kw)
    /\ UNCHANGED RepBasicBlock_block_type

resnet152(kw) ==
    /\ pc = "idle"
    /\ EnterInit("resnet152", preset_block("resnet152"), preset_layers("resnet152"), kw)
    /\ UNCHANGED RepBasicBlock_block_type

\* the two supported names mapped the wrong way round
custom_block_swapped(b) ==
    CASE b = "basic"      -> "Bottleneck"
      [] b = "bottleneck" -> "BasicBlock"
      [] OTHER            -> ""

\* the block class resnet_custom maps a block name to ("" when unsupported)
custom_block(b) ==
    CASE b = "basic"      -> "BasicBlock"
      [] b = "bottleneck" -> "Bottleneck"
      [] OTHER            -> ""

\* the exception resnet_custom raises before calling ResNet ("none" if none)
custom_error(kw) ==
    IF ~({"block", "layers"} \subseteq kw.given) THEN "AssertionError"
    ELSE IF custom_block(kw.block) = "" THEN "Exception"
    ELSE "none"

resnet_custom(kw) ==
    /\ pc = "idle"
    /\ UNCHANGED RepBasicBlock_block_type
    /\ IF custom_error(kw) # "none"
       THEN /\ pc' = "raised"
            /\ exc' = custom_error(kw)
            /\ call' = [factory |-> "resnet_custom", block |-> "none", layers |-> <<>>, kw |-> kw]
            /\ op' = "resnet_custom"
            /\ UNCHANGED <<self, layer, ret, stage, models, cur>>
       ELSE EnterInit("resnet_custom", custom_block(kw.block), kw.layers, kw)

-----------------------------------------------------------------------------
(* ResNet.__init__ *)

\* check_range without the guard for an empty list
check_range_unguarded(x) == x # <<>> /\ PyMin(x) >= 0 /\ PyMax(x) <= 4

\* check_range(x): TRUE when its assertion passes
check_range(x) == x = <<>> \/ (PyMin(x) >= 0 /\ PyMax(x) <= 4)

\* the three argument checks at the top of __init__
args_ok(kw) ==
    /\ check_range(kw.frozen_layers)
    /\ check_range(kw.out_layers)
    /\ Len(kw.out_layers) = Len(kw.out_strides)

get_segments(checkpoint) ==
    IF checkpoint.iterable THEN checkpoint.v ELSE [i \in 1..5 |-> checkpoint.v[1]]

layer_out_planes(b, width, m) ==
    [i \in 1..5 |-> IF i = 1 THEN IntMul(width[1], m)
                             ELSE IntMul(width[i] * expansion(b), m)]

layer_in_planes(width, m) == [i \in 1..5 |-> IntMul(width[i], m)]

\* self.out_planes = [layer_out_planes[i] for i in out_layers]
out_planes(b, kw) ==
    [k \in 1..Len(kw.out_layers) |->
        At(layer_out_planes(b, kw.width, kw.multiplier), kw.out_layers[k])]

\* layer4 built only when it is the last output
builds_layer4_if_last(out_layers) == out_layers # <<>> /\ out_layers[Len(out_layers)] = 4

\* whether __init__ builds layer4
builds_layer4(out_layers) == 4 \in Range(out_layers)

Raise(e) ==
    /\ pc' = "raised"
    /\ exc' = e

\* argument checks and bookkeeping, up to the construction of the stem
Init_check ==
    /\ pc = "init"
    /\ UNCHANGED <<call, layer, ret, op, RepBasicBlock_block_type, stage, models, cur>>
    /\ IF ~args_ok(call.kw)
       THEN /\ Raise("AssertionError")
            /\ UNCHANGED self
       ELSE /\ self' = [multiplier |-> call.kw.multiplier,
                        frozen_layers |-> call.kw.frozen_layers,
                        out_layers |-> call.kw.out_layers,
                        out_strides |-> call.kw.out_strides,
                        out_planes |-> out_planes(call.block, call.kw),
                        segments |-> get_segments(call.kw.checkpoint),
                        inplanes |-> layer_out_planes(call.block, call.kw.width, call.kw.multiplier)[1],
                        block_nums |-> PySum(call.layers),
                        drop_path_rate |-> call.kw.drop_path_rate,
                        training |-> TRUE]
            /\ pc' = "layer0"
            /\ UNCHANGED exc

\* the stem: conv1, norm1, relu and the pooling (or strided conv) that follows
Init_layer0 ==
    /\ pc = "layer0"
    /\ layer' = [layer EXCEPT ![0] =
                    [built |-> TRUE, blocks |-> <<>>,
                     channels |-> layer_out_planes(call.block, call.kw.width, call.kw.multiplier)[1],
                     training |-> TRUE, requires_grad |-> TRUE]]
    /\ pc' = "layer1"
    /\ UNCHANGED <<call, self, exc, ret, op, RepBasicBlock_block_type, stage, models, cur>>

\* the drop-path rate of block number block_id,
\* self.drop_path_rate * block_id / (self.block_nums - 1.), and whether the
\* block gets a DropPath module
block_drop_path(dpr, block_id, block_nums) ==
    LET rate == FDivInt(FMulInt(FLiteral(dpr), block_id), block_nums - 1)
    IN  [rate |-> rate, present |-> rate.m # <<>>]

\* one block as a block class' __init__ builds it
new_block(cls, inplanes, planes, stride, dilation, downsample, stride_in_1x1, drop_path, block_id) ==
    [cls |-> cls, inplanes |-> inplanes, planes |-> planes,
     out |-> planes * expansion(cls), stride |-> stride, dilation |-> dilation,
     downsample |-> downsample, stride_in_1x1 |-> stride_in_1x1,
     drop_path |-> drop_path, block_id |-> block_id,
     block_type |-> IF cls = "RepBasicBlock" THEN RepBasicBlock_block_type ELSE "None"]

\* block_types = [block] * blocks
block_types(b, blocks) == [i \in 1..blocks |-> b]

\* the exception _make_layer raises ("none" if none)
make_layer_error(blocks, block_nums) ==
    IF block_nums = 1 THEN "ZeroDivisionError"
    ELSE IF blocks < 1 THEN "IndexError"
    ELSE "none"

\* a downsample path only where the stride is not 1
needs_downsample_stride_only(inplanes, b, planes, stride) == stride # 1

\* if stride != 1 or inplanes != planes * block.expansion
needs_downsample(inplanes, b, planes, stride) ==
    stride # 1 \/ inplanes # planes * expansion(b)

\* downsample = None
NoDownsample == [present |-> FALSE, inplanes |-> 0, planes |-> 0, stride |-> 0]

\* the downsample path of a stage: a 1x1 convolution from inplanes to
\* planes * block.expansion channels that carries the stage stride (with
\* avg_down the stride is taken by an average pooling in front of it), and
\* its norm layer; None when the stage needs none
downsample(inplanes, b, planes, stride) ==
    IF needs_downsample(inplanes, b, planes, stride)
    THEN [present |-> TRUE, inplanes |-> inplanes, planes |-> planes * expansion(b),
          stride |-> stride]
    ELSE NoDownsample

\* the channel count carried on without the block's expansion
next_inplanes_planes(b, planes) == planes

\* inplanes = planes * block.expansion
next_inplanes(b, planes) == planes * expansion(b)

\* the blocks of one stage
_make_layer(inplanes, b, planes, blocks, stride, dilation, stride_in_1x1, block_id, dpr, block_nums) ==
    [i \in 1..blocks |->
        IF i = 1
        THEN new_block(block_types(b, blocks)[1], inplanes, planes, stride, dilation,
                       downsample(inplanes, b, planes, stride), stride_in_1x1,
                       block_drop_path(dpr, block_id, block_nums), block_id)
        ELSE new_block(block_types(b, blocks)[i], next_inplanes(b, planes), planes, 1, dilation,
                       NoDownsample, stride_in_1x1,
                       block_drop_path(dpr, block_id + i - 1, block_nums), block_id + i - 1)]

\* drop_path = None, the default of the block classes
NoDropPath == [rate |-> FZero, present |-> FALSE]

\* the module-level make_layer4: the first block is appended whatever blocks
\* is, the others by range(1, blocks); its blocks get no drop path and no
\* block number
make_layer4(inplanes, b, planes, blocks, stride, dilation, stride_in_1x1) ==
    [i \in 1..(IF blocks < 1 THEN 1 ELSE blocks) |->
        IF i = 1
        THEN new_block(b, inplanes, planes, stride, dilation,
                       downsample(inplanes, b, planes, stride), stride_in_1x1,
                       NoDropPath, 0 - 1)
        ELSE new_block(b, next_inplanes(b, planes), planes, 1, dilation,
                       NoDownsample, stride_in_1x1, NoDropPath, 0 - 1)]

\* style == 'caffe' strides in the 1x1 convolution
stride_in_1x1(kw) == kw.style = "caffe"

\* block_id counted through the stage being built
first_block_id_through(layers, n) == PySum(Prefix(layers, n))

\* the block_id argument of the call that builds layer n:
\* 0, layers[0], sum(layers[0:2]), sum(layers[0:3])
first_block_id(layers, n) == PySum(Prefix(layers, n - 1))

\* self.layerN = self._make_layer(...), N = 1..4
Build(n, stride, dilation, in1x1, next) ==
    LET blocks == call.layers[n]
        planes == layer_in_planes(call.kw.width, call.kw.multiplier)[n + 1]
        id     == first_block_id(call.layers, n)
        err    == make_layer_error(blocks, self.block_nums)
    IN  IF err # "none"
        THEN /\ Raise(err)
             /\ UNCHANGED <<self, layer>>
        ELSE /\ layer' = [layer EXCEPT ![n] =
                    [built |-> TRUE,
                     blocks |-> _make_layer(self.inplanes, call.block, planes, blocks, stride,
                                            dilation, in1x1, id, self.drop_path_rate,
                                            self.block_nums),
                     channels |-> planes * expansion(call.block),
                     training |-> TRUE, requires_grad |-> TRUE]]
             /\ self' = [self EXCEPT !.inplanes = next_inplanes(call.block, planes)]
             /\ pc' = next
             /\ UNCHANGED exc

Init_layer1 ==
    /\ pc = "layer1"
    /\ Build(1, 1, 1, FALSE, "layer2")
    /\ UNCHANGED <<call, ret, op, RepBasicBlock_block_type, stage, models, cur>>

Init_layer2 ==
    /\ pc = "layer2"
    /\ Build(2, 2, 1, stride_in_1x1(call.kw), "layer3")
    /\ UNCHANGED <<call, ret, op, RepBasicBlock_block_type, stage, models, cur>>

Init_layer3 ==
    /\ pc = "layer3"
    /\ Build(3, 2, 1, stride_in_1x1(call.kw), "layer4")
    /\ UNCHANGED <<call, ret, op, RepBasicBlock_block_type, stage, models, cur>>

\* layer4_stride = out_strides[-1] // 16
layer4_stride(out_strides) == out_strides[Len(out_strides)] \div 16

Init_layer4 ==
    /\ pc = "layer4"
    /\ UNCHANGED <<call, ret, op, RepBasicBlock_block_type, stage, models, cur>>
    /\ IF builds_layer4(self.out_layers)
       THEN IF layer4_stride(self.out_strides) = 0
            THEN /\ Raise("ZeroDivisionError")
                 /\ UNCHANGED <<self, layer>>
            ELSE Build(4, layer4_stride(self.out_strides),
                       2 \div layer4_stride(self.out_strides),
                       stride_in_1x1(call.kw), "freeze")
       ELSE /\ pc' = "freeze"
            /\ UNCHANGED <<self, layer, exc>>

\* a call of the module-level make_layer4, on its own
make_layer4_call(inplanes, b, planes, blocks, stride, dilation, in1x1) ==
    /\ pc = "idle"
    /\ stage' = [called |-> TRUE, inplanes |-> inplanes, block |-> b, planes |-> planes,
                 blocks |-> blocks, stride |-> stride, dilation |-> dilation,
                 layers |-> make_layer4(inplanes, b, planes, blocks, stride, dilation, in1x1)]
    /\ pc' = "made"
    /\ op' = "make_layer4"
    /\ UNCHANGED <<call, self, layer, exc, ret, RepBasicBlock_block_type, models, cur>>

-----------------------------------------------------------------------------
(* freeze_layer and train *)

\* freeze without layer.eval(): the layer follows train(mode) again
freeze_params_only(l) == [l EXCEPT !.requires_grad = FALSE]

\* layer.eval() and requires_grad = False on every parameter of the layer
freeze(l) == [l EXCEPT !.training = FALSE, !.requires_grad = FALSE]

\* freeze_layer raises when a frozen index names a layer that is None
freeze_layer_error(L, frozen) ==
    IF \E k \in DOMAIN frozen : ~L[frozen[k]].built THEN "AttributeError" ELSE "none"

freeze_layer(L, frozen) ==
    [i \in 0..4 |-> IF i \in Range(frozen) THEN freeze(L[i]) ELSE L[i]]

\* the self.freeze_layer() call that ends __init__
Init_freeze ==
    /\ pc = "freeze"
    /\ UNCHANGED <<call, self, ret, op, RepBasicBlock_block_type, stage, models, cur>>
    /\ IF freeze_layer_error(layer, self.frozen_layers) # "none"
       THEN /\ Raise(freeze_layer_error(layer, self.frozen_layers))
            /\ UNCHANGED layer
       ELSE /\ layer' = freeze_layer(layer, self.frozen_layers)
            /\ pc' = "done"
            /\ UNCHANGED exc

\* module.train(mode) on every child module
children_train(L, mode) ==
    [i \in 0..4 |-> IF L[i].built THEN [L[i] EXCEPT !.training = mode] ELSE L[i]]

train(mode) ==
    /\ pc = "done"
    /\ self' = [self EXCEPT !.training = mode]
    /\ op' = "train"
    /\ UNCHANGED <<call, ret, pc, RepBasicBlock_block_type, stage, models, cur>>
    /\ IF freeze_layer_error(layer, self.frozen_layers) # "none"
       THEN /\ exc' = freeze_layer_error(layer, self.frozen_layers)
            /\ layer' = children_train(layer, mode)
       ELSE /\ layer' = freeze_layer(children_train(layer, mode), self.frozen_layers)
            /\ exc' = "none"

-----------------------------------------------------------------------------
(* forward *)

\* the attributes a ResNet instance has besides those of nn.Module
ResNetAttrs ==
    {"get_segments", "get_fa_layers", "norm1", "_make_layer", "get_outplanes",
     "get_outstrides", "forward", "freeze_layer", "train"}

\* self.<name> resolves
has_attr(name) == name \in ResNetAttrs

\* the branch forward takes for a built layer
use_checkpoint(segments, layer_idx, frozen) ==
    At(segments, layer_idx) > 0 /\ layer_idx \notin Range(frozen)

\* the block_type a RepBasicBlock's forward reads from the class
rep_forward_type_class(blk) == RepBasicBlock_block_type

\* the block_type a RepBasicBlock's forward reads: self.block_type
rep_forward_type(blk) == blk.block_type

\* the block_type each block of a layer branches on in its forward ("None"
\* for the classes whose forward reads none)
layer_forward_types(l) ==
    [j \in 1..Len(l.blocks) |->
        IF l.blocks[j].cls = "RepBasicBlock" THEN rep_forward_type(l.blocks[j]) ELSE "None"]

\* the loop over layer_idx in range(0, 5), from layer_idx on; x is the value
\* fed to the next layer, r the outputs and dispatch record so far
RECURSIVE forward_loop(_, _, _)
forward_loop(layer_idx, x, r) ==
    IF layer_idx > 4 THEN r
    ELSE IF ~layer[layer_idx].built THEN forward_loop(layer_idx + 1, x, r)
    ELSE IF use_checkpoint(self.segments, layer_idx, self.frozen_layers)
         THEN IF has_attr("checkpoint_fwd")
              THEN forward_loop(layer_idx + 1, Append(x, layer_idx),
                        [r EXCEPT !.outs = Append(@, Append(x, layer_idx)),
                                  !.path[layer_idx] = "checkpoint",
                                  !.block_type[layer_idx] = layer_forward_types(layer[layer_idx])])
              ELSE [r EXCEPT !.status = "AttributeError"]
         ELSE forward_loop(layer_idx + 1, Append(x, layer_idx),
                        [r EXCEPT !.outs = Append(@, Append(x, layer_idx)),
                                  !.path[layer_idx] = "direct",
                                  !.block_type[layer_idx] = layer_forward_types(layer[layer_idx])])

\* features = [outs[i] for i in self.out_layers]
features(outs, out_layers) == [k \in 1..Len(out_layers) |-> At(outs, out_layers[k])]

features_error(outs, out_layers) ==
    IF \E k \in DOMAIN out_layers : out_layers[k] >= Len(outs) THEN "IndexError" ELSE "none"

get_outplanes == self.out_planes

get_outstrides == self.out_strides

forward ==
    /\ pc = "done"
    /\ op' = "forward"
    /\ UNCHANGED <<pc, call, self, layer, RepBasicBlock_block_type, stage, models, cur>>
    /\ LET r == forward_loop(0, <<>>, [NoRet EXCEPT !.status = "ok"])
       IN  IF r.status # "ok"
           THEN /\ ret' = r
                /\ exc' = r.status
           ELSE IF features_error(r.outs, self.out_layers) # "none"
           THEN /\ ret' = [r EXCEPT !.status = features_error(r.outs, self.out_layers)]
                /\ exc' = features_error(r.outs, self.out_layers)
           ELSE /\ ret' = [r EXCEPT !.features = features(r.outs, self.out_layers),
                                    !.strides = get_outstrides]
                /\ exc' = "none"

-----------------------------------------------------------------------------
(* The caller: models kept across calls *)

\* most models a caller keeps
MaxModels == 2

\* the factory returns (or the caller is done with a kept model): a new model
\* is kept while there is room, a kept one keeps what was done to it
Return ==
    /\ pc = "done"
    /\ models' = IF cur # 0
                 THEN [models EXCEPT ![cur] = [self |-> self, layer |-> layer, call |-> call]]
                 ELSE IF Len(models) < MaxModels
                 THEN Append(models, [self |-> self, layer |-> layer, call |-> call])
                 ELSE models
    /\ pc' = "idle"
    /\ cur' = 0
    /\ self' = NoSelf
    /\ layer' = [i \in 0..4 |-> NoLayer]
    /\ ret' = NoRet
    /\ op' = "return"
    /\ UNCHANGED <<call, exc, RepBasicBlock_block_type, stage>>

\* the caller takes up the i-th model it kept
Use(i) ==
    /\ pc = "idle"
    /\ i \in 1..Len(models)
    /\ self' = models[i].self
    /\ layer' = models[i].layer
    /\ call' = models[i].call
    /\ cur' = i
    /\ pc' = "done"
    /\ op' = "use"
    /\ UNCHANGED <<exc, ret, RepBasicBlock_block_type, stage, models>>

-----------------------------------------------------------------------------
(* Specification *)

\* a factory is called when no model has been requested yet; the guard stands
\* before the choice of keyword arguments
Next ==
    \/ pc = "idle" /\ \E kw \in Kw18 : resnet18(kw)
    \/ pc = "idle" /\ \E kw \in KwPreset \cup KwPlanes : resnet34(kw)
    \/ pc = "idle" /\ \E kw \in KwStructure : resnet50(kw)
    \/ pc = "idle" /\ \E kw \in KwPreset : resnet101(kw)
    \/ pc = "idle" /\ \E kw \in KwPreset : resnet152(kw)
    \/ pc = "idle" /\ \E kw \in KwCustom \cup KwCustomDrop : resnet_custom(kw)
    \/ Init_check
    \/ Init_layer0
    \/ Init_layer1
    \/ Init_layer2
    \/ Init_layer3
    \/ Init_layer4
    \/ Init_freeze
    \/ \E mode \in BOOLEAN : train(mode)
    \/ forward
    \/ \E inplanes \in StageInplanes, b \in {"BasicBlock", "Bottleneck"},
          planes \in StagePlanes, blocks \in 0..MaxBlocks, stride \in {1, 2},
          dilation \in {1, 2}, in1x1 \in BOOLEAN :
            make_layer4_call(inplanes, b, planes, blocks, stride, dilation, in1x1)

Spec == Init /\ [][Next]_vars

\* a caller that builds resnet18 models one after the other, keeps them and
\* runs them
NextRep ==
    \/ pc = "idle" /\ \E kw \in KwRep : resnet18(kw)
    \/ Init_check
    \/ Init_layer0
    \/ Init_layer1
    \/ Init_layer2
    \/ Init_layer3
    \/ Init_layer4
    \/ Init_freeze
    \/ forward
    \/ Return
    \/ \E i \in 1..MaxModels : Use(i)

SpecRep == Init /\ [][NextRep]_vars

TypeOK ==
    /\ pc \in {"idle", "init", "layer0", "layer1", "layer2", "layer3", "layer4",
               "freeze", "done", "raised", "made"}
    /\ exc \in {"none", "AssertionError", "Exception", "ZeroDivisionError",
                "IndexError", "AttributeError"}

-----------------------------------------------------------------------------
(* Properties *)

\* a ResNet instance exists: __init__ returned
Constructed == pc = "done"

IsFrozen(i) == i \in Range(self.frozen_layers)

\* C1: freezing is persistent.  On a constructed ResNet, after construction
\* and after every train(True) / train(False), each layer listed in
\* frozen_layers is in eval mode with no parameter requiring a gradient;
\* after train(True) every built layer that is not frozen is in training
\* mode, and after train(False) every layer is in eval mode.
FreezingPersistent ==
    Constructed =>
        /\ \A i \in 0..4 : IsFrozen(i) =>
              /\ layer[i].built
              /\ ~layer[i].training
              /\ ~layer[i].requires_grad
        /\ self.training =>
              \A i \in 0..4 : (layer[i].built /\ ~IsFrozen(i)) => layer[i].training
        /\ ~self.training =>
              \A i \in 0..4 : layer[i].built => ~layer[i].training

\* train(True) was called on a model with a frozen and an unfrozen layer
FrozenAfterTrainTrue ==
    /\ Constructed
    /\ op = "train"
    /\ self.training
    /\ \E i \in 0..4 : IsFrozen(i)
    /\ \E i \in 0..4 : layer[i].built /\ ~IsFrozen(i) /\ layer[i].training

\* the output of layer i when the built layers run in order from the image
ChainTo(i) == [j \in 1..(i + 1) |-> j - 1]

\* C2: forward runs layer0..layer4 in order, each fed the previous output,
\* and returns one feature per out_layers entry, entry k being the output
\* of layer out_layers[k]; layer4 is built exactly when 4 is in out_layers,
\* so no entry indexes an output that was not produced.
ForwardFeatures ==
    /\ pc \in {"freeze", "done"} => (layer[4].built <=> 4 \in Range(self.out_layers))
    /\ ret.status # "IndexError"
    /\ ret.status = "ok" =>
          /\ Len(ret.features) = Len(self.out_layers)
          /\ \A k \in 1..Len(self.out_layers) :
                ret.features[k] = ChainTo(self.out_layers[k])
          /\ ret.outs = [n \in 1..Len(ret.outs) |-> ChainTo(n - 1)]

\* forward returned features in an order that is not the layer order
ForwardReturnedReordered ==
    /\ ret.status = "ok"
    /\ Len(ret.features) = 2
    /\ ret.features[1] = ChainTo(4)
    /\ ret.features[2] = ChainTo(2)

\* the arguments the constructor's checks are meant to reject
OutOfRange(x) == \E k \in DOMAIN x : x[k] < 0 \/ x[k] > 4

BadArgs(kw) ==
    \/ OutOfRange(kw.frozen_layers)
    \/ OutOfRange(kw.out_layers)
    \/ Len(kw.out_layers) # Len(kw.out_strides)

\* ResNet.__init__ was entered and its argument checks have run
Checked == call.block # "none" /\ pc \notin {"idle", "init"}

\* C5: __init__ fails with an assertion error, before any layer is built,
\* when frozen_layers or out_layers holds an index outside 0..4 or when
\* out_layers and out_strides differ in length; otherwise (an empty list
\* included) the checks pass.
ArgumentValidation ==
    Checked =>
        /\ BadArgs(call.kw) =>
              /\ pc = "raised"
              /\ exc = "AssertionError"
              /\ \A i \in 0..4 : ~layer[i].built
        /\ ~BadArgs(call.kw) => exc # "AssertionError"

\* an out-of-range frozen index was rejected
RejectedFrozenIndex ==
    /\ Checked
    /\ OutOfRange(call.kw.frozen_layers)
    /\ ~OutOfRange(call.kw.out_layers)
    /\ exc = "AssertionError"

\* an empty frozen_layers passed the checks
AcceptedEmptyFrozen ==
    /\ Checked
    /\ call.kw.frozen_layers = <<>>
    /\ pc = "layer0"


\* the condition under which forward is to checkpoint layer i
WantsCheckpoint(i) == At(self.segments, i) > 0 /\ ~IsFrozen(i)

\* C3: in forward a built layer is executed through the checkpointed path
\* exactly when its segment count is positive and it is not frozen.
CheckpointDispatch ==
    (op = "forward" /\ ret.status # "none") =>
        \A i \in 0..4 : layer[i].built =>
            (ret.path[i] = "checkpoint" <=> WantsCheckpoint(i))

\* C3, the part the code keeps: a frozen layer, and any layer whose segment
\* count is 0, is never executed through the checkpointed path.
NoCheckpointWhenFrozenOrOff ==
    \A i \in 0..4 :
        (ret.status # "none" /\ (IsFrozen(i) \/ At(self.segments, i) <= 0))
            => ret.path[i] # "checkpoint"

\* C4: with a positive segment count on an unfrozen layer forward still
\* completes and returns one feature per out_layers entry, in order, with
\* the strides, as it does with checkpointing disabled.
ForwardCompletesWithCheckpoint ==
    (op = "forward" /\ \E i \in 0..4 : layer[i].built /\ WantsCheckpoint(i)) =>
        /\ ret.status = "ok"
        /\ ret.features = [k \in 1..Len(self.out_layers) |-> ChainTo(self.out_layers[k])]
        /\ ret.strides = self.out_strides

\* C6: every index in 0..4 is a valid frozen index: construction never fails
\* in freeze_layer, also when 4 is frozen and not an output.
FrozenIndexValid ==
    (Checked /\ ~BadArgs(call.kw) /\ pc = "raised") => exc # "AttributeError"

\* the number of deformable blocks a layer_deform setting asks for in a stage
\* of n blocks
DeformWanted(setting, n) ==
    CASE setting = "all"   -> n
      [] setting = "last"  -> IF n < 1 THEN n ELSE 1
      [] setting = "1"     -> IF n < 1 THEN n ELSE 1
      [] setting = "2"     -> IF n < 2 THEN n ELSE 2
      [] OTHER             -> 0

\* C7: the blocks of each built stage follow layer_deform: the last
\* DeformWanted blocks of stage i are deformable and no other block is.
LayerDeformFollowed ==
    Constructed =>
        \A n \in 1..4 : layer[n].built =>
            \A j \in 1..Len(layer[n].blocks) :
                is_deform(layer[n].blocks[j].cls) <=>
                    j > Len(layer[n].blocks)
                          - DeformWanted(At(call.kw.layer_deform, n), Len(layer[n].blocks))

\* the output channel count of a built layer: the stem's, or that of the
\* last block of the stage
RealChannels(i) ==
    IF i = 0 THEN layer[0].channels
    ELSE layer[i].blocks[Len(layer[i].blocks)].out

\* C8: get_outplanes reports, for every out_layers entry, the number of
\* output channels of the layer that was built.
OutplanesReal ==
    Constructed =>
        /\ Len(get_outplanes) = Len(self.out_layers)
        /\ \A k \in 1..Len(self.out_layers) :
              get_outplanes[k] = RealChannels(self.out_layers[k])

\* C8, where the code agrees: with BasicBlock (expansion 1) the reported
\* channel counts are the real ones.
OutplanesRealBasic ==
    (Constructed /\ expansion(call.block) = 1) =>
        \A k \in 1..Len(self.out_layers) :
            get_outplanes[k] = RealChannels(self.out_layers[k])

IsCustom == call.factory = "resnet_custom"

\* what resnet_custom does before it calls ResNet
CustomArgHandling ==
    IsCustom =>
        /\ ~({"block", "layers"} \subseteq call.kw.given) =>
              (pc = "raised" /\ exc = "AssertionError" /\ call.block = "none")
        /\ ({"block", "layers"} \subseteq call.kw.given
              /\ call.kw.block \notin {"basic", "bottleneck"}) =>
              (pc = "raised" /\ exc = "Exception" /\ call.block = "none"
                  /\ \A i \in 0..4 : ~layer[i].built)
        /\ ({"block", "layers"} \subseteq call.kw.given /\ call.kw.block = "basic") =>
              (call.block = "BasicBlock" /\ call.layers = call.kw.layers)
        /\ ({"block", "layers"} \subseteq call.kw.given /\ call.kw.block = "bottleneck") =>
              (call.block = "Bottleneck" /\ call.layers = call.kw.layers)

StageHasGiven(n) ==
    /\ Len(layer[n].blocks) = call.kw.layers[n]
    /\ \A j \in 1..Len(layer[n].blocks) :
          layer[n].blocks[j].cls =
              (IF call.kw.block = "basic" THEN "BasicBlock" ELSE "Bottleneck")

\* C9 as stated: resnet_custom requires 'block' and 'layers', maps 'basic' and
\* 'bottleneck', raises for any other block, and otherwise builds a ResNet
\* with exactly the given block count in each of the four stages.
CustomBuildsGivenCounts ==
    /\ CustomArgHandling
    /\ (IsCustom /\ Constructed) => \A n \in 1..4 : StageHasGiven(n)

\* C9: resnet_custom requires 'block' and 'layers', maps 'basic' and
\* 'bottleneck', raises for any other block without building a model, and
\* otherwise every stage the constructor builds has exactly the given block
\* count, of the mapped block class.
CustomBuildsGivenCountsWhereBuilt ==
    /\ CustomArgHandling
    /\ (IsCustom /\ Constructed) =>
          /\ \A n \in 1..3 : layer[n].built
          /\ \A n \in 1..4 : layer[n].built => StageHasGiven(n)

\* resnet_custom built a bottleneck model with unequal stage counts and no layer4
CustomBuiltC4 ==
    /\ IsCustom
    /\ Constructed
    /\ call.kw.block = "bottleneck"
    /\ call.kw.layers = <<1, 2, 1, 2>>
    /\ ~layer[4].built

\* the depth a preset's name states
NamedDepth(name) ==
    CASE name = "resnet18"  -> 18
      [] name = "resnet34"  -> 34
      [] name = "resnet50"  -> 50
      [] name = "resnet101" -> 101
      [] name = "resnet152" -> 152

Presets == {"resnet18", "resnet34", "resnet50", "resnet101", "resnet152"}

RECURSIVE TotalBlocks(_)
TotalBlocks(n) == IF n = 0 THEN 0 ELSE Len(layer[n].blocks) + TotalBlocks(n - 1)

RECURSIVE BlocksThrough(_)
BlocksThrough(n) ==
    IF n = 0 THEN <<>>
    ELSE BlocksThrough(n - 1) \o (IF layer[n].built THEN layer[n].blocks ELSE <<>>)

\* drop_path_rate * k / (N - 1) as Python evaluates it
ScheduledRate(k) ==
    FDivInt(FMulInt(FLiteral(self.drop_path_rate), k), self.block_nums - 1)

\* the schedule up to the last block: numbering, rates, DropPath modules
ScheduleOfBlocks ==
    /\ \A n \in 1..4 : layer[n].built =>
          \A j \in 1..Len(layer[n].blocks) :
             LET blk == layer[n].blocks[j]
             IN  /\ blk.block_id = PySum(Prefix(call.layers, n - 1)) + j - 1
                 /\ blk.drop_path.rate = ScheduledRate(blk.block_id)
                 /\ blk.drop_path.present <=> blk.drop_path.rate # FZero
    /\ LET all == BlocksThrough(4)
       IN  /\ \A i \in 1..Len(all) : all[i].block_id = i - 1
           /\ \A i \in 1..(Len(all) - 1) :
                 FLeq(all[i].drop_path.rate, all[i + 1].drop_path.rate)
    /\ layer[1].built => ~layer[1].blocks[1].drop_path.present

LastBlock == layer[4].blocks[Len(layer[4].blocks)]

\* C11 as stated: block k of N = sum(layers) >= 2 blocks, numbered
\* consecutively across the stages, gets the rate drop_path_rate * k / (N - 1)
\* and a DropPath module iff that rate is > 0; rates do not decrease, the
\* first block of layer1 has no DropPath, and the last block of a built
\* layer4 gets exactly drop_path_rate.
DropPathSchedule ==
    (Checked /\ pc # "raised") =>
        /\ ScheduleOfBlocks
        /\ layer[4].built => LastBlock.drop_path.rate = FLiteral(self.drop_path_rate)

\* C11: as above, except that the last block of a built layer4 gets
\* drop_path_rate * (N - 1) / (N - 1) as evaluated in double precision: the
\* largest rate of the schedule, not always drop_path_rate itself.
DropPathScheduleRounded ==
    (Checked /\ pc # "raised") =>
        /\ ScheduleOfBlocks
        /\ layer[4].built =>
              /\ LastBlock.block_id = self.block_nums - 1
              /\ LastBlock.drop_path.rate = ScheduledRate(self.block_nums - 1)
              /\ \A n \in 1..4 : \A j \in 1..Len(layer[n].blocks) :
                    FLeq(layer[n].blocks[j].drop_path.rate, LastBlock.drop_path.rate)

\* a model of four blocks with drop_path_rate 0.1 whose last block has a
\* DropPath with a rate that is not 0.1
LastRateRounded ==
    /\ Constructed
    /\ layer[4].built
    /\ self.block_nums = 4
    /\ self.drop_path_rate = <<1, 10>>
    /\ LastBlock.drop_path.present
    /\ LastBlock.drop_path.rate # FLiteral(<<1, 10>>)


\* the stride, dilation and planes __init__ passes for layer n
StageStride(n) ==
    IF n = 1 THEN 1 ELSE IF n = 4 THEN layer4_stride(self.out_strides) ELSE 2

StageDilation(n) == IF n = 4 THEN 2 \div layer4_stride(self.out_strides) ELSE 1

StagePlanesOf(n) == layer_in_planes(call.kw.width, call.kw.multiplier)[n + 1]

LayerPc(n) == <<"layer1", "layer2", "layer3", "layer4">>[n]

\* the blocks of a stage built from inplanes channels with the given planes,
\* stride and dilation: stride and downsample on the first block only
StagePlaced(blks, inplanes, b, planes, stride, dilation) ==
    /\ Len(blks) >= 1
    /\ blks[1].stride = stride
    /\ blks[1].downsample.present <=> (stride # 1 \/ inplanes # planes * expansion(b))
    /\ blks[1].downsample.present => blks[1].downsample.stride = stride
    /\ \A i \in 2..Len(blks) : blks[i].stride = 1 /\ ~blks[i].downsample.present
    /\ \A i \in 1..Len(blks) : blks[i].dilation = dilation /\ blks[i].cls = b

\* C12: every step that builds a stage, in _make_layer or in make_layer4,
\* gives the stage stride and the downsample path to the first block only,
\* stride 1 and no downsample to every later block, the stage dilation to all
\* blocks, and a downsample path iff the stage stride is not 1 or the stage's
\* input channel count differs from planes * block.expansion.
StagePlacement ==
    [][ /\ \A n \in 1..4 :
              (pc = LayerPc(n) /\ layer'[n].built) =>
                  StagePlaced(layer'[n].blocks, self.inplanes, call.block,
                              StagePlanesOf(n), StageStride(n), StageDilation(n))
        /\ (pc = "idle" /\ stage'.called) =>
              StagePlaced(stage'.layers, stage'.inplanes, stage'.block, stage'.planes,
                          stage'.stride, stage'.dilation) ]_vars

\* a model whose layer1 has no downsample path, whose layer2 has several
\* blocks and a strided first block with a downsample path
StagesWithAndWithoutDownsample ==
    /\ Constructed
    /\ ~layer[1].blocks[1].downsample.present
    /\ Len(layer[2].blocks) >= 2
    /\ layer[2].blocks[1].downsample.present
    /\ layer[2].blocks[1].stride = 2
    /\ layer[2].blocks[2].stride = 1


\* the last of layer0..layer4 built so far
LastBuilt == CHOOSE n \in 0..4 : layer[n].built /\ \A k \in (n + 1)..4 : ~layer[k].built

\* the output channel count of a built layer: of the stem, or of its last block
OutChannels(n) ==
    IF n = 0 THEN layer[0].channels ELSE layer[n].blocks[Len(layer[n].blocks)].out

\* C13: from the stem on, self.inplanes is the output channel count of the
\* most recently built layer, every block takes the channel count the block
\* (or stem) before it in forward order puts out, and a stage's first block
\* that changes the channel count or the stride has a downsample path from
\* its input to planes * block.expansion channels.
ChannelChaining ==
    layer[0].built =>
        /\ self.inplanes = OutChannels(LastBuilt)
        /\ LET all == BlocksThrough(4)
           IN  \A i \in 1..Len(all) :
                  all[i].inplanes = IF i = 1 THEN layer[0].channels ELSE all[i - 1].out
        /\ \A n \in 1..4 : layer[n].built =>
              LET first == layer[n].blocks[1]
              IN  (first.inplanes # first.out \/ first.stride # 1) =>
                     /\ first.downsample.present
                     /\ first.downsample.inplanes = first.inplanes
                     /\ first.downsample.planes = first.planes * expansion(first.cls)

\* a Bottleneck model with layer4 whose layer1 changes the channel count at
\* stride 1 and whose width is scaled by a multiplier
ChainedBottleneck ==
    /\ Constructed
    /\ call.block = "Bottleneck"
    /\ layer[4].built
    /\ layer[1].blocks[1].stride = 1
    /\ layer[1].blocks[1].inplanes # layer[1].blocks[1].out
    /\ layer[1].blocks[1].downsample.present
    /\ self.inplanes = layer[4].channels


RepTypes == {"reppre", "repnpre", "repnpost"}

\* the blocks of a model are those its resnet18 call asked for: RepBasicBlock
\* blocks holding the requested block_type, or plain BasicBlock blocks
BlocksAsRequested(L, kw) ==
    \A n \in 1..4 : \A j \in 1..Len(L[n].blocks) :
        IF kw.block_type \in RepTypes
        THEN L[n].blocks[j].cls = "RepBasicBlock" /\ L[n].blocks[j].block_type = kw.block_type
        ELSE L[n].blocks[j].cls = "BasicBlock"

\* a forward that returned branched, in every block of every layer it ran, on
\* the block_type its model was requested with
ForwardAsRequested ==
    (pc = "done" /\ op = "forward" /\ ret.status = "ok") =>
        \A n \in 1..4 : layer[n].built =>
            ret.block_type[n] =
                [j \in 1..Len(layer[n].blocks) |->
                    IF call.kw.block_type \in RepTypes THEN call.kw.block_type ELSE "None"]

\* C14: over any sequence of resnet18 calls, the blocks of every model, kept
\* or under construction, hold the block_type of the call that built that
\* model, every forward of a model branches on that block_type whatever later
\* calls set on the RepBasicBlock class, and a call with block_type 'res'
\* builds plain BasicBlock blocks whatever earlier calls set.
RepBlockTypeFixed ==
    /\ \A i \in 1..Len(models) : BlocksAsRequested(models[i].layer, models[i].call.kw)
    /\ BlocksAsRequested(layer, call.kw)
    /\ ForwardAsRequested

\* the first of two kept models, built with one re-parameterized block_type,
\* has run forward after a second model set another one on the class
ForwardAfterLaterCall ==
    /\ Len(models) = 2
    /\ cur = 1
    /\ pc = "done" /\ op = "forward" /\ ret.status = "ok"
    /\ call.kw.block_type \in RepTypes
    /\ models[2].call.kw.block_type \in RepTypes
    /\ RepBasicBlock_block_type = models[2].call.kw.block_type
    /\ RepBasicBlock_block_type # call.kw.block_type
    /\ layer[1].blocks # <<>>

====
